---- MODULE Spec2Model ----
(***************************************************************************)
(* A model of calc's Interpreter (src/calc/interpreter.py): the lexer      *)
(* (_advance, _skip_whitespace, _integer, _get_next_token), the one-token  *)
(* lookahead (_consume) and the parser/evaluator (parse).                  *)
(*                                                                         *)
(* A text is a sequence of one-character strings.  pos is the 0-based      *)
(* Python index, so the character under the cursor is text[pos + 1].       *)
(***************************************************************************)
EXTENDS Integers, Sequences, FiniteSets, TLC

VARIABLES
    text,           \* Interpreter.text
    pos,            \* Interpreter.pos
    current_token,  \* Interpreter.current_token
    current_char,   \* Interpreter.current_char
    pc,             \* position of parse() in its body
    left,           \* parse(): local left
    op,             \* parse(): local op
    right,          \* parse(): local right
    result,         \* parse(): the value returned, <<>> while nothing is returned
    exc,            \* the exception the last call raised, NoError if none
    ret             \* the token the last direct _get_next_token() call returned

vars == <<text, pos, current_token, current_char, pc, left, op, right,
          result, exc, ret>>

----------------------------------------------------------------------------
(* Bounds of the model.                                                    *)

\* longest text drawn from the whole alphabet
MaxLen == 4
\* largest operand of the formatted texts "<a> + <b>", "<a> - <b>", "<n>"
MaxInt == 11
\* longest unrestricted text that follows a complete expression
MaxTail == 2
\* longest text of the runs that call the lexer's helpers directly, and of
\* the runs checked under fairness
MaxShortLen == 2
\* how far past the end a direct caller of _advance may push the cursor
MaxOver == 1
\* longest run of whitespace inserted into a text
MaxRun == 2

----------------------------------------------------------------------------
(* Token kinds, the None sentinel, characters.                             *)

INTEGER == "INTEGER"
PLUS == "PLUS"
MINUS == "MINUS"
EOF == "EOF"
Kinds == {INTEGER, PLUS, MINUS, EOF}

None == "None"

\* Characters for which int() has a value: str.isdecimal().
DecimalDigits == {"0", "1", "2", "3", "4", "5", "6", "7", "8", "9"}
\* "^2" stands for U+00B2 SUPERSCRIPT TWO, a character for which
\* str.isdigit() is True although int() rejects it.
SuperTwo == "^2"
Whitespace == {" ", "\t"}

\* a comparison with the blank in place of str.isspace()
IsSpace_blank(c) == c = " "

\* str.isspace()
IsSpace(c) == c \in Whitespace
\* str.isdigit(): the decimal digits and the digit-like characters
IsDigit(c) == c \in DecimalDigits \cup {SuperTwo}

DigitVal(c) ==
    CASE c = "0" -> 0 [] c = "1" -> 1 [] c = "2" -> 2 [] c = "3" -> 3
      [] c = "4" -> 4 [] c = "5" -> 5 [] c = "6" -> 6 [] c = "7" -> 7
      [] c = "8" -> 8 [] c = "9" -> 9

\* int(s) has a value iff s is a non-empty run of decimal digits
\* (the runs _integer builds hold no sign, space or underscore).
IntAccepts(s) == Len(s) > 0 /\ \A i \in 1..Len(s) : s[i] \in DecimalDigits

RECURSIVE IntOf(_)
\* int(s) of a run of decimal digits, base 10
IntOf(s) ==
    IF Len(s) = 0 THEN 0
    ELSE 10 * IntOf(SubSeq(s, 1, Len(s) - 1)) + DigitVal(s[Len(s)])

----------------------------------------------------------------------------
(* Tokens and exceptions.                                                  *)

Token(kind, value) == [kind |-> kind, value |-> value]
\* current_token = None (no Token object)
NoToken == [kind |-> None, value |-> None]

NoError ==
    [exc |-> None, msg |-> None, expected |-> None, pos |-> -1, found |-> None]
\* ParserError("Invalid token at position {pos}")
InvalidToken(p) ==
    [exc |-> "ParserError", msg |-> "Invalid token", expected |-> None,
     pos |-> p, found |-> None]
\* ParserError("Expected {token_kind} at position {pos}, found {current_token}")
UnexpectedToken(kind, p, found) ==
    [exc |-> "ParserError", msg |-> "Expected", expected |-> kind,
     pos |-> p, found |-> found]
\* int() of a run it rejects
ValueError ==
    [exc |-> "ValueError", msg |-> "invalid literal for int()",
     expected |-> None, pos |-> -1, found |-> None]
\* None.kind
AttributeError ==
    [exc |-> "AttributeError", msg |-> "NoneType has no attribute kind",
     expected |-> None, pos |-> -1, found |-> None]

----------------------------------------------------------------------------
(* The Interpreter object and its methods, as functions of the object.     *)

\* Interpreter.__init__
NewInterpreter(t) ==
    [text |-> t, pos |-> 0, current_token |-> NoToken,
     current_char |-> IF Len(t) > 0 THEN t[1] ELSE None]

\* _advance with the end test off by one: None on the last character
Advance_early(s) ==
    LET p == s.pos + 1
    IN  [s EXCEPT !.pos = p,
                  !.current_char = IF p >= Len(s.text) - 1 THEN None
                                   ELSE s.text[p + 1]]

\* _advance that does not move the cursor once it is on the last character
Advance_stuck(s) ==
    LET p == IF s.pos >= Len(s.text) - 1 THEN s.pos ELSE s.pos + 1
    IN  [s EXCEPT !.pos = p,
                  !.current_char = IF s.pos >= Len(s.text) - 1 THEN None
                                   ELSE s.text[p + 1]]

\* Interpreter._advance
Advance(s) ==
    LET p == s.pos + 1
    IN  [s EXCEPT !.pos = p,
                  !.current_char = IF p > Len(s.text) - 1 THEN None
                                   ELSE s.text[p + 1]]

RECURSIVE SkipWhitespace(_)
\* Interpreter._skip_whitespace
SkipWhitespace(s) ==
    IF s.current_char # None /\ IsSpace(s.current_char)
    THEN SkipWhitespace(Advance(s))
    ELSE s

RECURSIVE IntegerLoop(_, _)
\* the while loop of _integer: the object and the list result after it
IntegerLoop(s, digits) ==
    IF s.current_char # None /\ IsDigit(s.current_char)
    THEN IntegerLoop(Advance(s), Append(digits, s.current_char))
    ELSE [self |-> s, digits |-> digits]

\* _integer taking one digit per call
Integer_single(s) ==
    IF s.current_char # None /\ s.current_char \in DecimalDigits
    THEN [self |-> Advance(s), value |-> DigitVal(s.current_char),
          exc |-> NoError]
    ELSE [self |-> IntegerLoop(s, <<>>).self, value |-> None,
          exc |-> ValueError]

\* Interpreter._integer: the object after the call, the value returned
\* and the exception raised (int() raises after the cursor has moved)
Integer(s) ==
    LET r == IntegerLoop(s, <<>>)
    IN  IF IntAccepts(r.digits)
        THEN [self |-> r.self, value |-> IntOf(r.digits), exc |-> NoError]
        ELSE [self |-> r.self, value |-> None, exc |-> ValueError]

RECURSIVE GetNextToken_eofraises(_)
\* _get_next_token whose loop, left at the end of the text, falls into the
\* raise in place of the EOF token
GetNextToken_eofraises(s) ==
    IF s.current_char = None
    THEN [self |-> s, token |-> NoToken, exc |-> InvalidToken(s.pos)]
    ELSE IF IsSpace(s.current_char)
    THEN GetNextToken_eofraises(SkipWhitespace(s))
    ELSE IF IsDigit(s.current_char)
    THEN LET r == Integer(s)
         IN  IF r.exc = NoError
             THEN [self |-> r.self, token |-> Token(INTEGER, r.value),
                   exc |-> NoError]
             ELSE [self |-> r.self, token |-> NoToken, exc |-> r.exc]
    ELSE IF s.current_char = "+"
    THEN [self |-> Advance(s), token |-> Token(PLUS, "+"), exc |-> NoError]
    ELSE IF s.current_char = "-"
    THEN [self |-> Advance(s), token |-> Token(MINUS, "-"), exc |-> NoError]
    ELSE [self |-> s, token |-> NoToken, exc |-> InvalidToken(s.pos)]

RECURSIVE GetNextToken(_)
\* Interpreter._get_next_token: the object after the call, the token
\* returned (NoToken when it raises) and the exception raised
GetNextToken(s) ==
    IF s.current_char = None
    THEN [self |-> s, token |-> Token(EOF, None), exc |-> NoError]
    ELSE IF IsSpace(s.current_char)
    THEN GetNextToken(SkipWhitespace(s))
    ELSE IF IsDigit(s.current_char)
    THEN LET r == Integer(s)
         IN  IF r.exc = NoError
             THEN [self |-> r.self, token |-> Token(INTEGER, r.value),
                   exc |-> NoError]
             ELSE [self |-> r.self, token |-> NoToken, exc |-> r.exc]
    ELSE IF s.current_char = "+"
    THEN [self |-> Advance(s), token |-> Token(PLUS, "+"), exc |-> NoError]
    ELSE IF s.current_char = "-"
    THEN [self |-> Advance(s), token |-> Token(MINUS, "-"), exc |-> NoError]
    ELSE [self |-> s, token |-> NoToken, exc |-> InvalidToken(s.pos)]

\* the statement self.current_token = self._get_next_token():
\* nothing is assigned when the call raises
AssignNextToken(s) ==
    LET r == GetNextToken(s)
    IN  IF r.exc = NoError
        THEN [self |-> [r.self EXCEPT !.current_token = r.token],
              exc |-> NoError]
        ELSE [self |-> r.self, exc |-> r.exc]

\* _consume that requests the next token before it checks the kind
Consume_eager(s, token_kind) ==
    IF s.current_token.kind = None
    THEN [self |-> s, exc |-> AttributeError]
    ELSE LET r == AssignNextToken(s)
         IN  IF s.current_token.kind = token_kind
             THEN r
             ELSE [self |-> r.self,
                   exc |-> UnexpectedToken(token_kind, r.self.pos,
                                           s.current_token.kind)]

\* Interpreter._consume: the object after the call and the exception raised
Consume(s, token_kind) ==
    IF s.current_token.kind = None
    THEN [self |-> s, exc |-> AttributeError]
    ELSE IF s.current_token.kind = token_kind
    THEN AssignNextToken(s)
    ELSE [self |-> s,
          exc |-> UnexpectedToken(token_kind, s.pos, s.current_token.kind)]

----------------------------------------------------------------------------
(* parse(), one statement group at a time.  A frame is the object, the     *)
(* locals of parse(), where parse() stands, and what it raised or returned.*)

\* the frame of parse() called on the object s
ParseFrame(s) ==
    [self |-> s, pc |-> "Start", left |-> NoToken, op |-> NoToken,
     right |-> NoToken, result |-> <<>>, exc |-> NoError]

\* an exception leaves parse(): no result, no further statement
Raise(f, s, e) == [f EXCEPT !.self = s, !.exc = e, !.pc = "Failed"]

\* self.current_token = self._get_next_token()
ParsePrime(f) ==
    LET r == AssignNextToken(f.self)
    IN  IF r.exc = NoError
        THEN [f EXCEPT !.self = r.self, !.pc = "ExpectIntegerLeft"]
        ELSE Raise(f, r.self, r.exc)

\* left = self.current_token; self._consume(INTEGER)
ParseLeft(f) ==
    LET r == Consume(f.self, INTEGER)
        g == [f EXCEPT !.left = f.self.current_token]
    IN  IF r.exc = NoError
        THEN [g EXCEPT !.self = r.self, !.pc = "ExpectOperator"]
        ELSE Raise(g, r.self, r.exc)

\* op = self.current_token; _consume(PLUS) if op.kind == PLUS else
\* _consume(MINUS)
ParseOperator(f) ==
    LET o == f.self.current_token
        r == IF o.kind = PLUS THEN Consume(f.self, PLUS)
             ELSE Consume(f.self, MINUS)
        g == [f EXCEPT !.op = o]
    IN  IF r.exc = NoError
        THEN [g EXCEPT !.self = r.self, !.pc = "ExpectIntegerRight"]
        ELSE Raise(g, r.self, r.exc)

\* parse() that adds whatever the operator is
ParseRight_add(f) ==
    LET r == Consume(f.self, INTEGER)
        g == [f EXCEPT !.right = f.self.current_token]
    IN  IF r.exc = NoError
        THEN [g EXCEPT !.self = r.self, !.pc = "Done",
                       !.result = <<g.left.value + g.right.value>>]
        ELSE Raise(g, r.self, r.exc)

\* parse() that checks the right operand's kind and requests no token after it
ParseRight_norequest(f) ==
    LET g == [f EXCEPT !.right = f.self.current_token]
    IN  IF f.self.current_token.kind = INTEGER
        THEN [g EXCEPT !.pc = "Done",
                       !.result = IF g.op.kind = PLUS
                                  THEN <<g.left.value + g.right.value>>
                                  ELSE <<g.left.value - g.right.value>>]
        ELSE Raise(g, f.self,
                   UnexpectedToken(INTEGER, f.self.pos,
                                   f.self.current_token.kind))

\* right = self.current_token; self._consume(INTEGER); compute and return
ParseRight(f) ==
    LET r == Consume(f.self, INTEGER)
        g == [f EXCEPT !.right = f.self.current_token]
    IN  IF r.exc = NoError
        THEN [g EXCEPT !.self = r.self, !.pc = "Done",
                       !.result = IF g.op.kind = PLUS
                                  THEN <<g.left.value + g.right.value>>
                                  ELSE <<g.left.value - g.right.value>>]
        ELSE Raise(g, r.self, r.exc)

\* Interpreter(t).parse(), run to its end: the final frame
Parse(t) ==
    LET f1 == ParsePrime(ParseFrame(NewInterpreter(t)))
        f2 == IF f1.pc = "Failed" THEN f1 ELSE ParseLeft(f1)
        f3 == IF f2.pc = "Failed" THEN f2 ELSE ParseOperator(f2)
    IN  IF f3.pc = "Failed" THEN f3 ELSE ParseRight(f3)

----------------------------------------------------------------------------
(* The input texts.                                                        *)

\* The characters the unrestricted texts are drawn from: two decimal
\* digits, both operators, a blank, a letter and a digit-like character.
Alphabet == {"0", "1", "+", "-", " ", "a", SuperTwo}

AllTexts == UNION {[1..n -> Alphabet] : n \in 0..MaxLen}

DigitChar(d) == CHOOSE c \in DecimalDigits : DigitVal(c) = d

RECURSIVE Fmt(_)
\* str(n) for n >= 0
Fmt(n) == IF n < 10 THEN <<DigitChar(n)>>
          ELSE Fmt(n \div 10) \o <<DigitChar(n % 10)>>

\* f"{a} + {b}" and f"{a} - {b}"
PlusText(a, b) == Fmt(a) \o <<" ", "+", " ">> \o Fmt(b)
MinusText(a, b) == Fmt(a) \o <<" ", "-", " ">> \o Fmt(b)

Operands == 0..MaxInt

NumberTexts == {Fmt(n) : n \in Operands}

FormattedTexts ==
    NumberTexts
    \cup {PlusText(a, b) : a \in Operands, b \in Operands}
    \cup {MinusText(a, b) : a \in Operands, b \in Operands}

\* a complete expression followed by any short text
Heads == {<<"1", "+", "1">>, <<"1", "0", " ", "-", "1">>}
Tails == UNION {[1..n -> Alphabet] : n \in 0..MaxTail}
TrailingTexts == {h \o s : h \in Heads, s \in Tails}

Texts == AllTexts \cup FormattedTexts \cup TrailingTexts

ShortTexts == UNION {[1..n -> Alphabet] : n \in 0..MaxShortLen}

----------------------------------------------------------------------------
(* The state machine.                                                      *)

\* the Interpreter object held in the variables
Self ==
    [text |-> text, pos |-> pos, current_token |-> current_token,
     current_char |-> current_char]

SetSelf(s) ==
    /\ text' = s.text
    /\ pos' = s.pos
    /\ current_token' = s.current_token
    /\ current_char' = s.current_char

Frame ==
    [self |-> Self, pc |-> pc, left |-> left, op |-> op, right |-> right,
     result |-> result, exc |-> exc]

SetFrame(f) ==
    /\ SetSelf(f.self)
    /\ pc' = f.pc
    /\ left' = f.left
    /\ op' = f.op
    /\ right' = f.right
    /\ result' = f.result
    /\ exc' = f.exc

\* interpreter = Interpreter(text) for a text of T, parse() not yet entered
InitOver(T) ==
    /\ text \in T
    /\ pos = NewInterpreter(text).pos
    /\ current_token = NewInterpreter(text).current_token
    /\ current_char = NewInterpreter(text).current_char
    /\ pc = "Start"
    /\ left = NoToken
    /\ op = NoToken
    /\ right = NoToken
    /\ result = <<>>
    /\ exc = NoError
    /\ ret = NoToken

Init == InitOver(Texts)

(* interpreter.parse(), statement group by statement group *)

StepPrime ==
    /\ pc = "Start"
    /\ SetFrame(ParsePrime(Frame))
    /\ UNCHANGED ret

StepLeft ==
    /\ pc = "ExpectIntegerLeft"
    /\ SetFrame(ParseLeft(Frame))
    /\ UNCHANGED ret

StepOperator ==
    /\ pc = "ExpectOperator"
    /\ SetFrame(ParseOperator(Frame))
    /\ UNCHANGED ret

StepRight ==
    /\ pc = "ExpectIntegerRight"
    /\ SetFrame(ParseRight(Frame))
    /\ UNCHANGED ret

Next == StepPrime \/ StepLeft \/ StepOperator \/ StepRight

\* one parse() call on a fresh Interpreter
Spec == Init /\ [][Next]_vars

(* the methods called one by one on a fresh Interpreter, in any order *)

\* interpreter._get_next_token()
TokenRequest ==
    LET r == GetNextToken(Self)
    IN  /\ SetSelf(r.self)
        /\ ret' = r.token
        /\ exc' = r.exc
        /\ UNCHANGED <<pc, left, op, right, result>>

\* interpreter.current_token = interpreter._get_next_token()
Prime ==
    LET r == AssignNextToken(Self)
    IN  /\ SetSelf(r.self)
        /\ exc' = r.exc
        /\ UNCHANGED <<pc, left, op, right, result, ret>>

\* interpreter._consume(token_kind)
ConsumeCall(token_kind) ==
    LET r == Consume(Self, token_kind)
    IN  /\ SetSelf(r.self)
        /\ exc' = r.exc
        /\ UNCHANGED <<pc, left, op, right, result, ret>>

NextLexer ==
    \/ TokenRequest
    \/ Prime
    \/ \E token_kind \in Kinds : ConsumeCall(token_kind)

SpecLexer == Init /\ [][NextLexer]_vars

InitShort == InitOver(ShortTexts)

\* the same on the short texts, for a caller that keeps requesting tokens
SpecLexerFair == InitShort /\ [][NextLexer]_vars /\ WF_vars(TokenRequest)

(* the same, with the helpers of the lexer called directly as well *)

\* interpreter._advance()
AdvanceCall ==
    /\ pos < Len(text) + MaxOver
    /\ SetSelf(Advance(Self))
    /\ exc' = NoError
    /\ UNCHANGED <<pc, left, op, right, result, ret>>

\* interpreter._skip_whitespace()
SkipWhitespaceCall ==
    /\ SetSelf(SkipWhitespace(Self))
    /\ exc' = NoError
    /\ UNCHANGED <<pc, left, op, right, result, ret>>

\* interpreter._integer()
IntegerCall ==
    LET r == Integer(Self)
    IN  /\ SetSelf(r.self)
        /\ exc' = r.exc
        /\ UNCHANGED <<pc, left, op, right, result, ret>>

NextHelpers ==
    \/ TokenRequest
    \/ Prime
    \/ \E token_kind \in Kinds : ConsumeCall(token_kind)
    \/ AdvanceCall
    \/ SkipWhitespaceCall
    \/ IntegerCall
    \/ StepPrime
    \/ StepLeft
    \/ StepOperator
    \/ StepRight

SpecHelpers == InitShort /\ [][NextHelpers]_vars

----------------------------------------------------------------------------
(* Vocabulary of the properties, stated on the text alone.                 *)

\* the 0-based index of the first non-whitespace character at or after p,
\* Len(t) if there is none
FirstNonSpace(t, p) ==
    LET S == {i \in p..(Len(t) - 1) : t[i + 1] \notin Whitespace}
    IN  IF S = {} THEN Len(t) ELSE CHOOSE i \in S : \A j \in S : i <= j

\* the 0-based index right after the run of digit characters that starts at j
DigitRunEnd(t, j) ==
    LET S == {i \in j..(Len(t) - 1) : t[i + 1] \notin DecimalDigits \cup {SuperTwo}}
    IN  IF S = {} THEN Len(t) ELSE CHOOSE i \in S : \A k \in S : i <= k

\* the first non-whitespace character at or after p is neither a decimal
\* digit nor an operator
BadAhead(t, p) ==
    LET j == FirstNonSpace(t, p)
    IN  j < Len(t) /\ t[j + 1] \notin DecimalDigits \cup {"+", "-"}

\* a token can be lexed at or after p: end of text, an operator, or a run
\* of digit characters all of which are decimal
LexableAhead(t, p) ==
    LET j == FirstNonSpace(t, p)
    IN  \/ j = Len(t)
        \/ t[j + 1] \in {"+", "-"}
        \/ /\ t[j + 1] \in DecimalDigits \cup {SuperTwo}
           /\ \A i \in j..(DigitRunEnd(t, j) - 1) : t[i + 1] \in DecimalDigits

\* where the token lexed at or after p ends
TokenEndAhead(t, p) ==
    LET j == FirstNonSpace(t, p)
    IN  IF j = Len(t) THEN Len(t)
        ELSE IF t[j + 1] \in {"+", "-"} THEN j + 1
        ELSE DigitRunEnd(t, j)

\* t with the run w inserted after its first i characters
Insert(t, i, w) == SubSeq(t, 1, i) \o w \o SubSeq(t, i + 1, Len(t))

\* position i of t lies inside a run of digit characters
InsideDigits(t, i) ==
    /\ 1 <= i
    /\ i < Len(t)
    /\ t[i] \in DecimalDigits \cup {SuperTwo}
    /\ t[i + 1] \in DecimalDigits \cup {SuperTwo}

WhitespaceRuns == UNION {[1..n -> Whitespace] : n \in 1..MaxRun}

\* a step that requests a token from the lexer: a direct call, the priming
\* assignment, or a _consume whose kind check passes
RequestStep ==
    \/ TokenRequest
    \/ Prime
    \/ \E k \in Kinds : current_token.kind = k /\ ConsumeCall(k)

\* the arithmetic of the expression whose tokens are l, o, r
Value(l, o, r) == IF o.kind = PLUS THEN l.value + r.value ELSE l.value - r.value

\* parse() has met INTEGER, (PLUS | MINUS), INTEGER
ValidPrefixSeen ==
    /\ left.kind = INTEGER
    /\ op.kind \in {PLUS, MINUS}
    /\ right.kind = INTEGER

----------------------------------------------------------------------------
(* C1 *)

\* C1: a fresh Interpreter over "<a> + <b>" never fails and returns a + b,
\* and over "<a> - <b>" never fails and returns a - b, for all operands
\* a, b in 0..MaxInt (one or two digits, b > a included).
C1_RoundTrip ==
    text \in FormattedTexts => \A a \in Operands, b \in Operands :
        /\ text = PlusText(a, b) =>
               pc # "Failed" /\ (pc = "Done" => result = <<a + b>>)
        /\ text = MinusText(a, b) =>
               pc # "Failed" /\ (pc = "Done" => result = <<a - b>>)

C1_Witness ==
    /\ text = MinusText(3, 11)
    /\ pc = "Done"
    /\ result = <<-8>>

----------------------------------------------------------------------------
(* C2 *)

\* C2 as claimed: once parse() has met INTEGER, (PLUS | MINUS), INTEGER it
\* returns the computed result, whatever text follows the right operand.
C2_TrailingNeverFails ==
    ValidPrefixSeen => pc = "Done" /\ result = <<Value(left, op, right)>>

\* C2 amended: consuming the right operand requests one more token.  If a
\* token can be lexed after the right operand (end of text, an operator or
\* a run of decimal digits, after optional whitespace) parse() returns the
\* computed result and the cursor stops right after that token, so nothing
\* behind it is inspected; otherwise parse() fails with the lexer's error
\* and returns nothing.
C2_TrailingOneToken ==
    [][(pc = "ExpectIntegerRight" /\ current_token.kind = INTEGER) =>
          IF LexableAhead(text, pos)
          THEN /\ pc' = "Done"
               /\ result' = <<Value(left, op, current_token)>>
               /\ pos' = TokenEndAhead(text, pos)
          ELSE /\ pc' = "Failed"
               /\ result' = <<>>
               /\ exc'.exc \in {"ParserError", "ValueError"}
               /\ exc'.exc = "ParserError" =>
                      exc' = InvalidToken(FirstNonSpace(text, pos))
      ]_vars

\* parse() has returned although an unlexable character ends the text
C2_Witness ==
    /\ pc = "Done"
    /\ ValidPrefixSeen
    /\ pos < Len(text)
    /\ text[Len(text)] = "a"

----------------------------------------------------------------------------
(* C3 *)

\* C3: _consume(kind) on a current token of another kind raises the
\* ParserError naming kind, pos and the kind found, and leaves
\* current_token, pos, current_char and text as they were; it replaces
\* current_token (by the token the lexer yields next) only when the kinds
\* are equal.
C3_Consume ==
    [][\A k \in Kinds :
          (ConsumeCall(k) /\ current_token.kind # None) =>
              IF current_token.kind = k
              THEN exc' = NoError =>
                       /\ current_token' = GetNextToken(Self).token
                       /\ pos' = GetNextToken(Self).self.pos
              ELSE /\ exc' = UnexpectedToken(k, pos, current_token.kind)
                   /\ UNCHANGED <<current_token, pos, current_char, text>>
      ]_vars

\* the case of test_raises_parser_error_on_unexpected_token
C3_Witness ==
    /\ current_token.kind = INTEGER
    /\ exc = UnexpectedToken(PLUS, pos, INTEGER)

----------------------------------------------------------------------------
(* C4 *)

\* C4: a token request made while the first non-whitespace character at or
\* after the cursor is no decimal digit and no operator raises the
\* ParserError "Invalid token" with that character's index, yields no
\* token, and leaves the cursor on that character.
C4_InvalidCharacter ==
    [][(RequestStep /\ BadAhead(text, pos)) =>
          LET j == FirstNonSpace(text, pos)
          IN  /\ exc' = InvalidToken(j)
              /\ pos' = j
              /\ current_char' = text[j + 1]
              /\ current_token' = current_token
      ]_vars

----------------------------------------------------------------------------
(* C5 *)

\* C5: with the cursor at or past the end of the text, a token request
\* yields the EOF token with no value, raises nothing and leaves pos and
\* current_char alone -- so the same holds for the next request.
C5_EofIdempotent ==
    [][(pos >= Len(text)) =>
          /\ TokenRequest => ret'.kind = EOF /\ ret'.value = None
          /\ Prime => current_token'.kind = EOF /\ current_token'.value = None
          /\ RequestStep =>
                 /\ exc' = NoError
                 /\ pos' = pos
                 /\ current_char' = current_char
      ]_vars

C5_Witness ==
    /\ Len(text) > 0
    /\ pos >= Len(text)
    /\ ret.kind = EOF
    /\ current_token.kind = EOF
    /\ exc = NoError

----------------------------------------------------------------------------
(* C6 *)

\* C6: if parse() returns r for the text, it returns r as well for the text
\* with a run of whitespace inserted at any place that is not inside a run
\* of digits (before the first token, between two tokens, after the last).
C6_Whitespace ==
    pc = "Done" =>
        \A i \in 0..Len(text) :
            ~InsideDigits(text, i) =>
                \A w \in WhitespaceRuns :
                    LET f == Parse(Insert(text, i, w))
                    IN  f.pc = "Done" /\ f.result = result

\* "  1 + 1 "-like: a text with leading whitespace has been parsed
C6_Witness ==
    /\ pc = "Done"
    /\ text[1] \in Whitespace
    /\ left.kind = INTEGER

----------------------------------------------------------------------------
(* C7 *)

\* C7: over the decimal text of n the first token requested is
\* INTEGER n and leaves the cursor at the end, every later one is EOF, and
\* the cursor is never inside the text; and on any text the character
\* under the cursor right after an INTEGER token is not a digit.
C7_Integer ==
    /\ [](text \in NumberTexts => pos \in {0, Len(text)})
    /\ [][/\ text \in NumberTexts => \A n \in Operands :
                (text = Fmt(n) /\ TokenRequest) =>
                    IF pos = 0
                    THEN /\ ret'.kind = INTEGER
                         /\ ret'.value = n
                         /\ pos' = Len(text)
                         /\ exc' = NoError
                    ELSE /\ ret'.kind = EOF
                         /\ exc' = NoError
          /\ (TokenRequest /\ ret'.kind = INTEGER) =>
                 current_char' \notin DecimalDigits \cup {SuperTwo}
         ]_vars

C7_Witness ==
    /\ text = Fmt(10)
    /\ ret.kind = INTEGER
    /\ ret.value = 10
    /\ pos = 2
    /\ current_char = None

----------------------------------------------------------------------------
(* C8 *)

\* C8: current_char is text[pos] while pos is inside the text and None
\* once it is past the end, after every call.
C8_Lookahead ==
    /\ pos >= 0
    /\ current_char = IF pos < Len(text) THEN text[pos + 1] ELSE None

\* a failed parse() and a cursor pushed past the end of a non-empty text
C8_Witness ==
    /\ Len(text) > 0
    /\ pos > Len(text)
    /\ pc = "Failed"

----------------------------------------------------------------------------
(* C9 *)

\* C9: parse() moves Start -> ExpectIntegerLeft -> ExpectOperator ->
\* ExpectIntegerRight -> Done or stops in a failure, which is a ParserError
\* with nothing returned; a kind check that fails requests no token and
\* reports the mismatch (INTEGER expected, or MINUS for a token that is
\* neither PLUS nor MINUS at the operator), and nothing follows a failure.
C9_FailFast ==
    [][/\ pc = "Start" => pc' \in {"ExpectIntegerLeft", "Failed"}
       /\ pc = "ExpectIntegerLeft" => pc' \in {"ExpectOperator", "Failed"}
       /\ pc = "ExpectOperator" => pc' \in {"ExpectIntegerRight", "Failed"}
       /\ pc = "ExpectIntegerRight" => pc' \in {"Done", "Failed"}
       /\ pc \notin {"Done", "Failed"}
       /\ pc' = "Failed" => exc'.exc = "ParserError" /\ result' = <<>>
       /\ pc' # "Done" => result' = <<>>
       /\ (pc \in {"ExpectIntegerLeft", "ExpectIntegerRight"}
             /\ current_token.kind # INTEGER) =>
              /\ pc' = "Failed"
              /\ exc' = UnexpectedToken(INTEGER, pos, current_token.kind)
              /\ UNCHANGED <<pos, current_char, current_token>>
       /\ (pc = "ExpectOperator" /\ current_token.kind \notin {PLUS, MINUS}) =>
              /\ pc' = "Failed"
              /\ exc' = UnexpectedToken(MINUS, pos, current_token.kind)
              /\ UNCHANGED <<pos, current_char, current_token>>
      ]_vars

----------------------------------------------------------------------------
(* C10 *)

\* C10: pos stays within 0..len(text) and never decreases, the text is
\* never modified, a token request that yields a token other than EOF
\* moves pos forward, and a caller that keeps requesting tokens gets EOF
\* or a lexer error after finitely many requests.
C10_Cursor ==
    /\ [](0 <= pos /\ pos <= Len(text))
    /\ <>(\/ ret.kind = EOF
          \/ exc.msg \in {"Invalid token", "invalid literal for int()"})
    /\ [][/\ pos' >= pos
          /\ text' = text
          /\ (TokenRequest /\ exc' = NoError /\ ret'.kind # EOF) => pos' > pos
          /\ (Prime /\ exc' = NoError /\ current_token'.kind # EOF) => pos' > pos
          /\ \A k \in Kinds :
                 (current_token.kind = k /\ ConsumeCall(k) /\ exc' = NoError
                    /\ current_token'.kind # EOF) => pos' > pos
         ]_vars

\* "+1" lexed to its end: PLUS by the priming assignment, then requests
C10_Witness ==
    /\ Len(text) = 2
    /\ pos = Len(text)
    /\ current_token.kind = PLUS
    /\ ret.kind = EOF

====
